---------------------------- MODULE Spec2Model ----------------------------
(***************************************************************************)
(* The recurring task scheduler ("timer engine") of the agent:             *)
(* src/agent/components/tools/timer_tool.py, class TimerTool.              *)
(*                                                                         *)
(* Time is counted in whole seconds since the (local) epoch.  A timer      *)
(* record is the dict built by create_timer; the in-memory map             *)
(* self.timers is `timers`, the JSON value stored under the key            *)
(* "agent:timers" is `redis`.  The check loop, every Engine thread and the *)
(* caller of the Timer API are separate threads; their steps interleave at *)
(* statement boundaries.                                                   *)
(***************************************************************************)
EXTENDS Integers, Sequences, FiniteSets, TLC

(* ------------------------------ bounds -------------------------------- *)
MaxTime == 3
MaxIds == 2
MaxEngines == 2
MaxCreates == 2
MaxCount == 2
MaxEdits == 1

(* ------------------------- program constants -------------------------- *)
None == -1
SecPerMinute == 60
SecPerHour == 3600
SecPerDay == 86400
SecPerWeek == 604800
SecPerMonth == 2592000
SecPerYear == 31536000

NoneStr == "None"
Ids == 1..MaxIds
Threads == 1..MaxEngines

Truthy(x) == x # None /\ x # 0
TruthyStr(s) == s # NoneStr /\ s # ""

(* --------------------------- time specs ------------------------------- *)
(* A time spec is the sequence of its whitespace-separated words.  A word  *)
(* is a keyword, a quantity with its unit ("5 минут"), a clock ("15:30",   *)
(* or "15" when m = None), the word "день" or some other word.             *)
Tok(t, n, m, u) == [t |-> t, n |-> n, m |-> m, u |-> u]
Through == Tok("through", 0, 0, "")
Every == Tok("every", 0, 0, "")
At == Tok("at", 0, 0, "")
Daily == Tok("daily", 0, 0, "")
Word == Tok("word", 0, 0, "")
Qty(n, u) == Tok("qty", n, 0, u)
Clock(h, m) == Tok("clock", h, m, "")
DayWord == Tok("dayword", 0, 0, "")
NoneSpec == <<Tok("None", 0, 0, "")>>

UnitSeconds(u) ==
  CASE u = "sec" -> 1
    [] u = "min" -> SecPerMinute
    [] u = "hour" -> SecPerHour
    [] u = "day" -> SecPerDay
    [] u = "week" -> SecPerWeek
    [] u = "month" -> SecPerMonth
    [] u = "year" -> SecPerYear

HasTok(spec, t) == \E i \in 1..Len(spec) : spec[i].t = t

FirstTok(spec, t) == CHOOSE i \in 1..Len(spec) :
                       spec[i].t = t /\ \A j \in 1..(i-1) : spec[j].t # t

(* The regular expression "keyword, white space, the rest": the words      *)
(* after the first keyword that is followed by anything; the whole spec    *)
(* when there is none.                                                     *)
TimePart(spec, kw) ==
  IF HasTok(spec, kw) /\ FirstTok(spec, kw) < Len(spec)
  THEN SubSeq(spec, FirstTok(spec, kw) + 1, Len(spec))
  ELSE spec

(* SumUnits that stops at the first quantity: no sum over the matches.     *)
SumUnitsFirstOnly(part) ==
  IF \E i \in 1..Len(part) : part[i].t = "qty"
  THEN LET i == CHOOSE j \in 1..Len(part) :
                  part[j].t = "qty" /\ \A h \in 1..(j-1) : part[h].t # "qty"
       IN part[i].n * UnitSeconds(part[i].u)
  ELSE 0

RECURSIVE SumUnits(_)
SumUnits(part) ==
  IF part = << >> THEN 0
  ELSE (IF Head(part).t = "qty" THEN Head(part).n * UnitSeconds(Head(part).u) ELSE 0)
       + SumUnits(Tail(part))

Parsed(nr, rec, int) == [res |-> "ok", next_run |-> nr, is_recurring |-> rec,
                         recurrence_interval |-> int]
ParseNone == [res |-> "none", next_run |-> None, is_recurring |-> FALSE,
              recurrence_interval |-> None]
ParseRaise == [res |-> "raise", next_run |-> None, is_recurring |-> FALSE,
               recurrence_interval |-> None]

(* ParseRelativeTime without "if seconds == 0: return None".               *)
ParseRelativeTimeNoZeroCheck(spec, tnow) ==
  Parsed(tnow + SumUnits(TimePart(spec, "through")), FALSE, None)

ParseRelativeTime(spec, tnow) ==
  LET seconds == SumUnits(TimePart(spec, "through"))
  IN IF seconds = 0 THEN ParseNone ELSE Parsed(tnow + seconds, FALSE, None)

(* ParseRecurringTime that gives a one-shot schedule.                      *)
ParseRecurringTimeOneShot(spec, tnow) ==
  LET seconds == SumUnits(TimePart(spec, "every"))
  IN IF seconds = 0 THEN ParseNone ELSE Parsed(tnow + seconds, FALSE, None)

ParseRecurringTime(spec, tnow) ==
  LET seconds == SumUnits(TimePart(spec, "every"))
  IN IF seconds = 0 THEN ParseNone ELSE Parsed(tnow + seconds, TRUE, seconds)

(* The first "в" that is followed by a clock (one or two digits, then     *)
(* optionally a colon and two digits).                                     *)
AtMatches(spec) == {i \in 1..(Len(spec) - 1) : spec[i].t = "at" /\ spec[i+1].t = "clock"}
MinOf(S) == CHOOSE x \in S : \A y \in S : x <= y

IsDaily(spec) ==
  \/ HasTok(spec, "daily")
  \/ \E i \in 1..(Len(spec) - 1) : spec[i].t = "every" /\ spec[i+1].t = "dayword"

(* ParseAbsoluteTime that keeps a target equal to now on the same day.     *)
ParseAbsoluteTimeStrict(spec, tnow) ==
  IF AtMatches(spec) = {} THEN ParseNone
  ELSE LET c == spec[MinOf(AtMatches(spec)) + 1]
           hour == c.n
           minute == IF c.m = None THEN 0 ELSE c.m
           today == (tnow \div SecPerDay) * SecPerDay
           target == today + hour * SecPerHour + minute * SecPerMinute
           rolled == IF target < tnow THEN target + SecPerDay ELSE target
       IN IF hour > 23 \/ minute > 59 THEN ParseRaise
          ELSE Parsed(rolled, IsDaily(spec), IF IsDaily(spec) THEN SecPerDay ELSE None)

ParseAbsoluteTime(spec, tnow) ==
  IF AtMatches(spec) = {} THEN ParseNone
  ELSE LET c == spec[MinOf(AtMatches(spec)) + 1]
           hour == c.n
           minute == IF c.m = None THEN 0 ELSE c.m
           today == (tnow \div SecPerDay) * SecPerDay
           target == today + hour * SecPerHour + minute * SecPerMinute
           rolled == IF target <= tnow THEN target + SecPerDay ELSE target
       IN IF hour > 23 \/ minute > 59 THEN ParseRaise
          ELSE Parsed(rolled, IsDaily(spec), IF IsDaily(spec) THEN SecPerDay ELSE None)

(* The guessing branch swallows a parser's exception and tries the next.   *)
Guess(r, next) == IF r.res = "ok" THEN r ELSE next

ParseTimeSpec(spec, tnow) ==
  IF HasTok(spec, "through") THEN ParseRelativeTime(spec, tnow)
  ELSE IF HasTok(spec, "every") THEN ParseRecurringTime(spec, tnow)
  ELSE IF HasTok(spec, "at") THEN ParseAbsoluteTime(spec, tnow)
  ELSE Guess(ParseRelativeTime(spec, tnow),
             Guess(ParseRecurringTime(spec, tnow),
                   Guess(ParseAbsoluteTime(spec, tnow), ParseNone)))

(* ast.parse of a procedure: the payloads of the model are "ok" (runs),    *)
(* "raise" (parses, raises when run) and "bad" (a syntax error).           *)
ValidPythonCodeAlways(code) == TRUE

ValidPythonCode(code) == code # "bad"


(* ------------------------------- state -------------------------------- *)
VARIABLES
  now,       \* the wall clock, in seconds
  up,        \* whether the process is running
  wiring,    \* the collaborators of the agent: "task", "inbox" or "none"
  timers,    \* self.timers: timer id -> timer record
  keys,      \* the keys of self.timers in the order of the dict
  redis,     \* the value stored under self.redis_timers_key
  redisKeys, \* the keys of the stored JSON object in its order
  engines,   \* the Engine threads (_execute_timer), by slot
  api,       \* the thread calling the Timer API
  hist       \* history of each timer id (observation only)

vars == <<now, up, wiring, timers, keys, redis, redisKeys, engines, api, hist>>

Put(m, k, v) == [i \in (DOMAIN m) \cup {k} |-> IF i = k THEN v ELSE m[i]]
Inc(n) == IF n < MaxCount THEN n + 1 ELSE n

DefaultName(id) == <<"Timer", id>>
UserName == <<"name", 0>>
NoName == <<NoneStr, 0>>

(* The dict built by create_timer.                                         *)
NewTimer(id, name, spec, p, action, proc, tnow) ==
  [id |-> id,
   name |-> IF name = NoName THEN DefaultName(id) ELSE name,
   time_spec |-> spec,
   next_run |-> p.next_run,
   is_recurring |-> p.is_recurring,
   recurrence_interval |-> p.recurrence_interval,
   action |-> action,
   procedure |-> proc,
   created_at |-> tnow,
   status |-> "active"]

(* json.dumps(self.timers), and json.loads of it: every field of a record  *)
(* is a string, a number, a boolean or null, which JSON keeps as they are. *)
Serialize(m) == [i \in DOMAIN m |-> m[i]]

(* A dict keeps its keys in the order of their insertion, json.dumps       *)
(* writes them and json.loads reads them in that order.  KeysOf: the keys  *)
(* of a serialised map, a part of the map ks it was made from.  Ascending: *)
(* the keys of a map that was filled in the order of its ids.              *)
KeysOf(m, ks) == LET In(k) == k \in DOMAIN m IN SelectSeq(ks, In)
Ascending(S) == CHOOSE q \in [1..Cardinality(S) -> S] :
                  \A i, j \in 1..Cardinality(S) : i < j => q[i] < q[j]

Idle == [pc |-> "idle", tid |-> 0, occ |-> None, next_run |-> None, tnow |-> None,
         snap |-> << >>]
(* pre and args keep, while an edit runs, the map before the call and     *)
(* the arguments of the call (observation only).                           *)
Args(spec, name, action, proc) ==
  [time_spec |-> spec, name |-> name, action |-> action, procedure |-> proc]
NoArgs == Args(NoneSpec, NoName, NoneStr, NoneStr)
ApiIdle == [pc |-> "idle", op |-> "", tid |-> 0, p |-> ParseNone, snap |-> << >>,
            ret |-> "", rows |-> << >>, pre |-> << >>, args |-> NoArgs]
Returned(op, id, r) == [ApiIdle EXCEPT !.pc = "ret", !.op = op, !.tid = id, !.ret = r]

(* gen: creations of the id; edits: edits begun; execs: Engine runs that   *)
(* passed the status check; tasks: createTask calls; disp: dispatches;     *)
(* touched: edited, cancelled or restarted since its creation; everRec:    *)
(* was recurring at some time; first: the next_run the start-up catch-up   *)
(* gave it; dispFirst: dispatches of that occurrence; cancDue: cancelled   *)
(* while due and not yet dispatched at that next_run; inbox:               *)
(* store_inbox_message calls.                                              *)
NoHist == [gen |-> 0, edits |-> 0, execs |-> 0, everRec |-> FALSE, first |-> None,
           dispFirst |-> 0, disp |-> 0, tasks |-> 0, touched |-> FALSE, cancDue |-> FALSE,
           inbox |-> 0]

RECURSIVE SumGen(_)
SumGen(S) == IF S = {} THEN 0
             ELSE LET i == CHOOSE x \in S : TRUE IN hist[i].gen + SumGen(S \ {i})
NCreates == SumGen(Ids)

(* LoopDue without the status test.                                        *)
LoopDueAnyStatus(t, tnow) == t.next_run <= tnow

(* The Loop's test of one timer: if timer["status"] != "active": continue; *)
(* if next_run <= now: start a thread.                                     *)
LoopDue(t, tnow) == t.status = "active" /\ t.next_run <= tnow

InFlight(id) == \E e \in Threads : engines[e].pc # "idle" /\ engines[e].tid = id

(* The Loop has started a thread for timer id at its current next_run.     *)
Examined(id) ==
  \E e \in Threads : /\ engines[e].pc # "idle" /\ engines[e].tid = id
                     /\ engines[e].occ = timers[id].next_run

(* agent.toolset has a task_tool, or the agent has only its inbox, or the  *)
(* tool was built without an agent.                                        *)
Wirings == {"task", "inbox", "none"}

Init ==
  /\ now = 0
  /\ up = TRUE
  /\ wiring \in Wirings
  /\ timers = << >>
  /\ redis = << >>
  /\ engines = [e \in Threads |-> Idle]
  /\ api = ApiIdle
  /\ hist = [i \in Ids |-> NoHist]
  /\ keys = Ascending(DOMAIN timers)
  /\ redisKeys = Ascending(DOMAIN redis)

(* ------------------------------ the clock ----------------------------- *)
Advance ==
  /\ now < MaxTime
  /\ now' = now + 1
  /\ UNCHANGED <<up, wiring, timers, keys, redis, redisKeys, engines, api, hist>>

(* ----------------------------- Timer API ------------------------------ *)
(* The result strings are "syntax_error" (the handler's message with the  *)
(* SyntaxError text, which names the line and the position),               *)
(* "create_error" (the handler's message with another exception's text),   *)
(* "parse_error", "procedure_error", "not_found", "none_active" and "ok";  *)
(* "raised" stands for an exception that leaves the call.                  *)
(* create_timer up to the serialisation in _save_timer_to_redis.  The id   *)
(* is uuid4's first eight digits: any id, also one in use (a create that   *)
(* reuses the id of a timer whose Engine is running is left out).          *)
Create(id, spec, name, action, proc) ==
  /\ up /\ api.pc = "idle" /\ NCreates < MaxCreates
  /\ LET p == ParseTimeSpec(spec, now)
     IN IF TruthyStr(proc) /\ ~ValidPythonCode(proc)
        THEN /\ api' = Returned("create", 0, "syntax_error")
             /\ UNCHANGED <<timers, keys, hist>>
        ELSE IF p.res = "raise"
        THEN /\ api' = Returned("create", 0, "create_error")
             /\ UNCHANGED <<timers, keys, hist>>
        ELSE IF p.res = "none"
        THEN /\ api' = Returned("create", 0, "parse_error")
             /\ UNCHANGED <<timers, keys, hist>>
        ELSE /\ ~InFlight(id)
             /\ timers' = Put(timers, id, NewTimer(id, name, spec, p, action, proc, now))
             /\ keys' = IF id \in DOMAIN timers THEN keys ELSE Append(keys, id)
             /\ api' = [ApiIdle EXCEPT !.pc = "set", !.op = "create", !.tid = id,
                                       !.snap = Serialize(timers')]
             /\ hist' = [hist EXCEPT ![id] = [NoHist EXCEPT !.gen = hist[id].gen + 1,
                                                           !.edits = hist[id].edits,
                                                           !.everRec = p.is_recurring]]
  /\ UNCHANGED <<now, up, wiring, redis, redisKeys, engines>>

(* cancel_timer up to the serialisation in _save_timer_to_redis.           *)
Cancel(id) ==
  /\ up /\ api.pc = "idle"
  /\ IF id \notin DOMAIN timers
     THEN /\ api' = Returned("cancel", id, "not_found")
          /\ UNCHANGED <<timers, keys, hist>>
     ELSE /\ timers' = [timers EXCEPT ![id].status = "cancelled"]
          /\ keys' = keys
          /\ api' = [ApiIdle EXCEPT !.pc = "set", !.op = "cancel", !.tid = id,
                                    !.snap = Serialize(timers')]
          /\ hist' = [hist EXCEPT ![id].touched = TRUE, ![id].first = None,
                                   ![id].cancDue = @ \/ (LoopDue(timers[id], now)
                                                          /\ ~Examined(id))]
  /\ UNCHANGED <<now, up, wiring, redis, redisKeys, engines>>

(* edit_timer from the lookup to timer["next_run"]: the procedure, name    *)
(* and action fields are written before the time spec is parsed.           *)
EditBegin(id, spec, name, action, proc) ==
  /\ up /\ api.pc = "idle"
  /\ id \in DOMAIN timers => hist[id].edits < MaxEdits
  /\ IF id \notin DOMAIN timers
     THEN /\ api' = Returned("edit", id, "not_found")
          /\ UNCHANGED <<timers, keys, hist>>
     ELSE IF proc # NoneStr /\ ~ValidPythonCode(proc)
     THEN /\ api' = Returned("edit", id, "procedure_error")
          /\ UNCHANGED <<timers, keys, hist>>
     ELSE LET p == ParseTimeSpec(spec, now)
              t1 == [timers[id] EXCEPT
                       !.procedure = IF proc # NoneStr THEN proc ELSE @,
                       !.name = IF name # NoName THEN name ELSE @,
                       !.action = IF action # NoneStr THEN action ELSE @]
          IN /\ hist' = [hist EXCEPT ![id].touched = TRUE, ![id].first = None,
                                      ![id].edits = @ + 1]
             /\ keys' = keys
             /\ IF spec = NoneSpec
                THEN /\ timers' = [timers EXCEPT ![id] = t1]
                     /\ api' = [ApiIdle EXCEPT !.pc = "set", !.op = "edit", !.tid = id,
                                               !.snap = Serialize(timers'),
                                               !.pre = timers,
                                               !.args = Args(spec, name, action, proc)]
                ELSE IF p.res # "ok"
                THEN /\ timers' = [timers EXCEPT ![id] = t1]
                     /\ api' = Returned("edit", id,
                                        IF p.res = "raise" THEN "raised" ELSE "parse_error")
                ELSE /\ timers' = [timers EXCEPT ![id] =
                                     [t1 EXCEPT !.time_spec = spec, !.next_run = p.next_run]]
                     /\ api' = [ApiIdle EXCEPT !.pc = "e_is_recurring", !.op = "edit",
                                               !.tid = id, !.p = p,
                                               !.pre = timers,
                                               !.args = Args(spec, name, action, proc)]
  /\ UNCHANGED <<now, up, wiring, redis, redisKeys, engines>>

(* timer["is_recurring"] = is_recurring                                    *)
EditIsRecurring ==
  /\ up /\ api.pc = "e_is_recurring"
  /\ timers' = [timers EXCEPT ![api.tid].is_recurring = api.p.is_recurring]
  /\ keys' = keys
  /\ api' = [api EXCEPT !.pc = "e_interval"]
  /\ hist' = [hist EXCEPT ![api.tid].everRec = @ \/ api.p.is_recurring]
  /\ UNCHANGED <<now, up, wiring, redis, redisKeys, engines>>

(* EditInterval without the write of the interval.                        *)
EditIntervalKept ==
  /\ up /\ api.pc = "e_interval"
  /\ api' = [api EXCEPT !.pc = "set", !.snap = Serialize(timers)]
  /\ UNCHANGED <<now, up, wiring, timers, keys, redis, redisKeys, engines, hist>>

(* timer["recurrence_interval"] = recurrence_interval, and the             *)
(* serialisation in _save_timer_to_redis.                                  *)
EditInterval ==
  /\ up /\ api.pc = "e_interval"
  /\ timers' = [timers EXCEPT ![api.tid].recurrence_interval = api.p.recurrence_interval]
  /\ keys' = keys
  /\ api' = [api EXCEPT !.pc = "set", !.snap = Serialize(timers')]
  /\ UNCHANGED <<now, up, wiring, redis, redisKeys, engines, hist>>

(* ApiSet whose failed write reaches the caller.                           *)
ApiSetRaising(ok) ==
  /\ up /\ api.pc = "set"
  /\ redis' = IF ok THEN api.snap ELSE redis
  /\ redisKeys' = IF ok THEN KeysOf(api.snap, keys) ELSE redisKeys
  /\ api' = Returned(api.op, api.tid, IF ok THEN "ok" ELSE "raised")
  /\ UNCHANGED <<now, up, wiring, timers, keys, engines, hist>>

(* self.redis_client.set of the API call's _save_timer_to_redis: it stores *)
(* the serialised map, or raises and is logged; then the call returns.     *)
ApiSet(ok) ==
  /\ up /\ api.pc = "set"
  /\ redis' = IF ok THEN api.snap ELSE redis
  /\ redisKeys' = IF ok THEN KeysOf(api.snap, keys) ELSE redisKeys
  /\ api' = Returned(api.op, api.tid, "ok")
  /\ UNCHANGED <<now, up, wiring, timers, keys, engines, hist>>

(* Describe without the lookup of the id.                                  *)
DescribeAlwaysOk(id) ==
  /\ up /\ api.pc = "idle"
  /\ api' = Returned("describe", id, "ok")
  /\ UNCHANGED <<now, up, wiring, timers, keys, redis, redisKeys, engines, hist>>

(* get_timer_details: a read of the map.                                   *)
Describe(id) ==
  /\ up /\ api.pc = "idle"
  /\ api' = Returned("describe", id, IF id \in DOMAIN timers THEN "ok" ELSE "not_found")
  /\ UNCHANGED <<now, up, wiring, timers, keys, redis, redisKeys, engines, hist>>

(* The ids of the rows of list_timers: the active timers in the order of   *)
(* the dict (the comprehension and the loop over it keep that order).      *)
ListedIds ==
  LET Active(k) == timers[k].status = "active"
  IN SelectSeq(keys, Active)

(* list_timers: a read of the active timers of the map; a row has the id   *)
(* and the next run of a timer.  rows: the rows of the result string.      *)
ListTimers ==
  /\ up /\ api.pc = "idle"
  /\ api' = [Returned("list", 0, IF ListedIds # << >> THEN "ok" ELSE "none_active")
               EXCEPT !.rows = [j \in 1..Len(ListedIds) |->
                                  [id |-> ListedIds[j],
                                   next_run |-> timers[ListedIds[j]].next_run]]]
  /\ UNCHANGED <<now, up, wiring, timers, keys, redis, redisKeys, engines, hist>>

(* The caller has the result string; the API is free for the next call.    *)
ApiReturn ==
  /\ up /\ api.pc = "ret"
  /\ api' = ApiIdle
  /\ UNCHANGED <<now, up, wiring, timers, keys, redis, redisKeys, engines, hist>>

(* --------------------------- Scheduler Loop --------------------------- *)
DueIds == {id \in DOMAIN timers : LoopDue(timers[id], now)}
IdleSlots(eng) == {e \in Threads : eng[e].pc = "idle"}

(* One thread is started per due timer, in the order of the scan.          *)
RECURSIVE Dispatch(_, _)
Dispatch(eng, due) ==
  IF due = {} THEN eng
  ELSE LET id == MinOf(due)
           e == MinOf(IdleSlots(eng))
       IN Dispatch([eng EXCEPT ![e] = [Idle EXCEPT !.pc = "start", !.tid = id,
                                                   !.occ = timers[id].next_run]],
                   due \ {id})

(* One pass of _timer_check_loop over self.timers.                         *)
Tick ==
  /\ up
  /\ Cardinality(DueIds) <= Cardinality(IdleSlots(engines))
  /\ engines' = Dispatch(engines, DueIds)
  /\ hist' = [i \in Ids |->
                IF i \in DueIds
                THEN [hist[i] EXCEPT
                        !.disp = Inc(@),
                        !.dispFirst = IF hist[i].first = timers[i].next_run
                                      THEN Inc(@) ELSE @]
                ELSE hist[i]]
  /\ UNCHANGED <<now, up, wiring, timers, keys, redis, redisKeys, api>>

(* -------------------------- Execution Engine -------------------------- *)
(* Delegate with the Task Sink branch lost: everything goes to the inbox.   *)
DelegateInboxOnly(t, w) ==
  IF TruthyStr(t.action) /\ w # "none" THEN "inbox" ELSE "nothing"

(* hasattr(self.agent.toolset, "task_tool")                                *)
HasTaskTool(w) == w \in {"task", "task_throws"}

(* The collaborator's call raises an Exception.                            *)
SinkThrows(w) == w \in {"task_throws", "inbox_throws"}

(* Which collaborator gets the action of timer t: the Task Sink when the   *)
(* agent's toolset has a task_tool, else the agent's inbox.                *)
Delegate(t, w) ==
  IF TruthyStr(t.action) /\ w # "none"
  THEN (IF HasTaskTool(w) THEN "task" ELSE "inbox")
  ELSE "nothing"

(* Agent.add_inbox_message is given a string: a text without the word      *)
(* "message" makes it return at once, a text with it makes data["message"] *)
(* raise TypeError, which the Engine's handler of the action catches       *)
(* before store_inbox_message is reached.  The payload "message" stands    *)
(* for an action text that holds that word.                                *)
AddInboxMessageRaises(t) == t.action = "message"

(* The calls made for the action of t: createTask calls and                *)
(* store_inbox_message calls.                                              *)
TaskCalls(t, w) == IF Delegate(t, w) = "task" THEN 1 ELSE 0
InboxCalls(t, w) ==
  IF Delegate(t, w) = "inbox" /\ ~AddInboxMessageRaises(t) THEN 1 ELSE 0

(* exec of the procedure inside try / except Exception: the payloads are   *)
(* "ok" (runs), "raise" (raises an Exception), "bad" (a syntax error,      *)
(* which exec raises as an Exception too) and "exit" (raises SystemExit,   *)
(* which is no Exception: neither handler of _execute_timer catches it and *)
(* the thread ends) and "hang" (exec never returns: the thread stays in    *)
(* it for ever and takes no further step).                                 *)
RunProcedure(proc) ==
  IF ~TruthyStr(proc) THEN "skipped"
  ELSE IF proc = "exit" THEN "propagated"
  ELSE IF proc = "hang" THEN "hangs"
  ELSE IF proc \in {"raise", "bad"} THEN "caught"
  ELSE "ok"

(* Aborts without the status test.                                         *)
AbortsOnlyIfMissing(id) == id \notin DOMAIN timers

(* timer = self.timers.get(timer_id); if not timer or status != "active"   *)
Aborts(id) == id \notin DOMAIN timers \/ timers[id].status # "active"

(* The re-fetch and the status check, then the procedure and the action    *)
(* (an Exception of either is caught and logged).  A thread that ends in   *)
(* the procedure or never leaves it has no step left: its slot, which      *)
(* stands for a thread that can still act, is free again.                  *)
EStart(e) ==
  /\ up /\ engines[e].pc = "start"
  /\ LET id == engines[e].tid
     IN IF Aborts(id)
        THEN /\ engines' = [engines EXCEPT ![e] = Idle]
             /\ UNCHANGED hist
        ELSE IF RunProcedure(timers[id].procedure) \in {"propagated", "hangs"}
        THEN /\ engines' = [engines EXCEPT ![e] = Idle]
             /\ hist' = [hist EXCEPT ![id].execs = Inc(@)]
        ELSE /\ engines' = [engines EXCEPT ![e].pc = "cond"]
             /\ hist' = [hist EXCEPT
                  ![id].execs = Inc(@),
                  ![id].tasks = IF TaskCalls(timers[id], wiring) = 1 THEN Inc(@) ELSE @,
                  ![id].inbox = IF InboxCalls(timers[id], wiring) = 1 THEN Inc(@) ELSE @]
  /\ UNCHANGED <<now, up, wiring, timers, keys, redis, redisKeys, api>>

(* if timer["is_recurring"] and timer["recurrence_interval"]:              *)
Reschedules(t) == t.is_recurring /\ Truthy(t.recurrence_interval)

ECond(e) ==
  /\ up /\ engines[e].pc = "cond"
  /\ engines' = [engines EXCEPT ![e].pc =
                   IF Reschedules(timers[engines[e].tid]) THEN "calc" ELSE "complete"]
  /\ UNCHANGED <<now, up, wiring, timers, keys, redis, redisKeys, api, hist>>

(* The next run the Engine computes for a recurring timer.                 *)
EngineNextRun(next_run, interval, tnow) ==
  LET first == next_run + interval
  IN IF first < tnow
     THEN next_run + (((tnow - first) \div interval) + 1) * interval
     ELSE first

(* A missing interval (an edit in between) makes the sum raise; the        *)
(* thread's handler logs it and the thread ends.                           *)
ECalc(e) ==
  /\ up /\ engines[e].pc = "calc"
  /\ LET t == timers[engines[e].tid]
     IN engines' = [engines EXCEPT ![e] =
          IF t.recurrence_interval = None THEN Idle
          ELSE [@ EXCEPT !.pc = "write", !.tnow = now,
                         !.next_run = EngineNextRun(t.next_run, t.recurrence_interval, now)]]
  /\ UNCHANGED <<now, up, wiring, timers, keys, redis, redisKeys, api, hist>>

(* timer["next_run"] = next_run, and the serialisation of the save.        *)
EWrite(e) ==
  /\ up /\ engines[e].pc = "write"
  /\ timers' = [timers EXCEPT ![engines[e].tid].next_run = engines[e].next_run]
  /\ keys' = keys
  /\ engines' = [engines EXCEPT ![e].pc = "set", ![e].snap = Serialize(timers')]
  /\ UNCHANGED <<now, up, wiring, redis, redisKeys, api, hist>>

(* timer["status"] = "completed", and the serialisation of the save.       *)
EComplete(e) ==
  /\ up /\ engines[e].pc = "complete"
  /\ timers' = [timers EXCEPT ![engines[e].tid].status = "completed"]
  /\ keys' = keys
  /\ engines' = [engines EXCEPT ![e].pc = "set", ![e].snap = Serialize(timers')]
  /\ UNCHANGED <<now, up, wiring, redis, redisKeys, api, hist>>

(* self.redis_client.set of the Engine's save, then the thread ends.       *)
ESet(e, ok) ==
  /\ up /\ engines[e].pc = "set"
  /\ redis' = IF ok THEN engines[e].snap ELSE redis
  /\ redisKeys' = IF ok THEN KeysOf(engines[e].snap, keys) ELSE redisKeys
  /\ engines' = [engines EXCEPT ![e] = Idle]
  /\ UNCHANGED <<now, up, wiring, timers, keys, api, hist>>

(* ------------------------- crash and restart -------------------------- *)
(* The process ends: its threads and its in-memory map are gone.           *)
Crash ==
  /\ up
  /\ up' = FALSE
  /\ timers' = << >>
  /\ keys' = << >>
  /\ engines' = [e \in Threads |-> Idle]
  /\ api' = ApiIdle
  /\ hist' = [i \in Ids |-> [hist[i] EXCEPT !.touched = TRUE, !.first = None]]
  /\ UNCHANGED <<now, wiring, redis, redisKeys>>

(* CatchUp without the "+ 1": the last missed occurrence, not the next.    *)
CatchUpNoPlusOne(next_run, interval, tnow) ==
  next_run + ((tnow - next_run) \div interval) * interval

(* The catch-up of _update_missed_recurring_timers for one timer.          *)
CatchUp(next_run, interval, tnow) ==
  next_run + (((tnow - next_run) \div interval) + 1) * interval

(* Stale that also takes a timer whose next_run is now.                    *)
StaleInclusive(t, tnow) ==
  /\ t.status = "active" /\ t.is_recurring
  /\ t.next_run <= tnow /\ Truthy(t.recurrence_interval)

Stale(t, tnow) ==
  /\ t.status = "active" /\ t.is_recurring
  /\ t.next_run < tnow /\ Truthy(t.recurrence_interval)

UpdateMissedRecurringTimers(m, tnow) ==
  [i \in DOMAIN m |->
     IF Stale(m[i], tnow)
     THEN [m[i] EXCEPT !.next_run = CatchUp(m[i].next_run, m[i].recurrence_interval, tnow)]
     ELSE m[i]]

(* __init__: _load_timers_from_redis (the read may raise: an empty map),   *)
(* then the check loop starts.                                             *)
Start(ok) ==
  /\ ~up
  /\ up' = TRUE
  /\ timers' = IF ok THEN UpdateMissedRecurringTimers(redis, now) ELSE << >>
  /\ keys' = IF ok THEN redisKeys ELSE << >>
  /\ hist' = [i \in Ids |->
                [hist[i] EXCEPT
                   !.dispFirst = 0,
                   !.first = IF ok /\ i \in DOMAIN redis /\ Stale(redis[i], now)
                             THEN timers'[i].next_run ELSE None]]
  /\ UNCHANGED <<now, wiring, redis, redisKeys, engines, api>>

(* --------------------------- specifications --------------------------- *)
(* What the callers pass in the runs explored.                             *)
OneShot1 == <<Through, Qty(1, "sec")>>
Every1 == <<Every, Qty(1, "sec")>>
Nonsense == <<Word>>

EngineSteps ==
  \/ \E e \in Threads : EStart(e)
  \/ \E e \in Threads : ECond(e)
  \/ \E e \in Threads : ECalc(e)
  \/ \E e \in Threads : EWrite(e)
  \/ \E e \in Threads : EComplete(e)

(* One process lifetime with the store available: create and cancel, the   *)
(* Loop and the Engines interleave.                                        *)
Next ==
  \/ Advance
  \/ \E spec \in {OneShot1, Every1, Nonsense}, action \in {NoneStr, "ping"} :
       Create(1, spec, NoName, action, NoneStr)
  \/ Cancel(1)
  \/ ApiSet(TRUE)
  \/ ApiReturn
  \/ Tick
  \/ EngineSteps
  \/ \E e \in Threads : ESet(e, TRUE)

Spec == Init /\ [][Next]_vars

(* The agent with its task tool.                                           *)
InitTask == Init /\ wiring = "task"

(* The same with edits of the time spec, whose field writes interleave     *)
(* with the Engines' steps.                                                *)
NextEdit ==
  \/ Advance
  \/ \E spec \in {OneShot1, Every1} : Create(1, spec, NoName, NoneStr, NoneStr)
  \/ Cancel(1)
  \/ \E spec \in {OneShot1, Every1} : EditBegin(1, spec, NoName, NoneStr, NoneStr)
  \/ EditIsRecurring
  \/ EditInterval
  \/ ApiSet(TRUE)
  \/ ApiReturn
  \/ Tick
  \/ EngineSteps
  \/ \E e \in Threads : ESet(e, TRUE)

SpecEdit == InitTask /\ [][NextEdit]_vars

(* Process lifetimes in sequence: the store may fail a read or a write,    *)
(* the process may end at any point and start again.                       *)
NextRestart ==
  \/ Advance
  \/ \E spec \in {OneShot1, Every1} : Create(1, spec, NoName, NoneStr, NoneStr)
  \/ Cancel(1)
  \/ \E ok \in BOOLEAN : ApiSet(ok)
  \/ ApiReturn
  \/ Tick
  \/ EngineSteps
  \/ \E e \in Threads, ok \in BOOLEAN : ESet(e, ok)
  \/ Crash
  \/ \E ok \in BOOLEAN : Start(ok)

SpecRestart == InitTask /\ [][NextRestart]_vars

(* The start-up catch-up on its own: the process is down, the store holds  *)
(* one timer with any schedule, and the process starts at any time.        *)
MaxLast == 6
MaxInterval == 4
MaxNow == 9

StoredTimer(last, interval, rec, status) ==
  [NewTimer(1, NoName,
            IF rec THEN <<Every, Qty(interval, "sec")>> ELSE <<Through, Qty(interval, "sec")>>,
            Parsed(last, rec, IF rec THEN interval ELSE None),
            NoneStr, NoneStr, last - interval)
   EXCEPT !.status = status]

InitResolve ==
  /\ now \in 0..MaxNow
  /\ up = FALSE
  /\ wiring = "task"
  /\ timers = << >>
  /\ \E interval \in 1..MaxInterval, last \in 1..MaxLast, rec \in BOOLEAN,
        status \in {"active", "cancelled", "completed"} :
       /\ interval <= last
       /\ redis = [i \in {1} |-> StoredTimer(last, interval, rec, status)]
  /\ engines = [e \in Threads |-> Idle]
  /\ api = ApiIdle
  /\ hist = [i \in Ids |-> NoHist]
  /\ keys = Ascending(DOMAIN timers)
  /\ redisKeys = Ascending(DOMAIN redis)

NextResolve == Start(TRUE)

SpecResolve == InitResolve /\ [][NextResolve]_vars

(* One timer with every kind of payload and every kind of collaborator,    *)
(* working or throwing: it is created once, it may be cancelled, the Loop  *)
(* and the Engines run.                                                    *)
InitFire ==
  /\ now = 0
  /\ up = TRUE
  /\ wiring \in Wirings \cup {"task_throws", "inbox_throws"}
  /\ timers = << >>
  /\ redis = << >>
  /\ engines = [e \in Threads |-> Idle]
  /\ api = ApiIdle
  /\ hist = [i \in Ids |-> NoHist]
  /\ keys = Ascending(DOMAIN timers)
  /\ redisKeys = Ascending(DOMAIN redis)

(* The first create_timer call of the process.                             *)
FirstCreate(id, spec, name, action, proc) ==
  NCreates = 0 /\ Create(id, spec, name, action, proc)

NextFire ==
  \/ Advance
  \/ \E spec \in {OneShot1, Every1}, action \in {NoneStr, "ping", "message"},
        proc \in {"ok", "raise", "exit"} :
       FirstCreate(1, spec, NoName, action, proc)
  \/ Cancel(1)
  \/ ApiSet(TRUE)
  \/ ApiReturn
  \/ Tick
  \/ EngineSteps
  \/ \E e \in Threads : ESet(e, TRUE)

SpecFire == InitFire /\ [][NextFire]_vars

(* The Timer API on its own, called by one caller at a time with valid     *)
(* and invalid arguments; the clock stands still.                          *)
ThroughNothing == <<Through, Word>>
AtNothing == <<At, Word>>
BadHour == <<At, Clock(25, 0)>>
Unparseable == {Nonsense, ThroughNothing, AtNothing}
ApiSpecs == {OneShot1, Every1, BadHour} \cup Unparseable
Names == {NoName, UserName}
Actions == {NoneStr, "ping"}
Procedures == {NoneStr, "ok", "bad"}

(* The process with its task tool, at any time of the clock.               *)
InitApi ==
  /\ now \in 0..MaxTime
  /\ up = TRUE
  /\ wiring = "task"
  /\ timers = << >>
  /\ redis = << >>
  /\ engines = [e \in Threads |-> Idle]
  /\ api = ApiIdle
  /\ hist = [i \in Ids |-> NoHist]
  /\ keys = Ascending(DOMAIN timers)
  /\ redisKeys = Ascending(DOMAIN redis)

NextApi ==
  \/ \E id \in Ids, spec \in ApiSpecs, proc \in {NoneStr, "bad"} :
       Create(id, spec, NoName, NoneStr, proc)
  \/ \E id \in Ids : Cancel(id)
  \/ \E id \in Ids, spec \in ApiSpecs \cup {NoneSpec}, name \in Names,
        action \in Actions, proc \in Procedures :
       EditBegin(id, spec, name, action, proc)
  \/ EditIsRecurring
  \/ EditInterval
  \/ \E id \in Ids : Describe(id)
  \/ ListTimers
  \/ ApiSet(TRUE)
  \/ ApiReturn

SpecApi == InitApi /\ [][NextApi]_vars

(* The store across process lifetimes with several timers: creates and     *)
(* cancels whose writes may fail, the process may end at any point and     *)
(* start again with a read that may fail; the clock stands still.          *)
NextLoad ==
  \/ \E id \in Ids, spec \in {OneShot1, Every1} : Create(id, spec, NoName, NoneStr, NoneStr)
  \/ \E id \in Ids : Cancel(id)
  \/ \E ok \in BOOLEAN : ApiSet(ok)
  \/ ApiReturn
  \/ Crash
  \/ \E ok \in BOOLEAN : Start(ok)

SpecLoad == InitApi /\ [][NextLoad]_vars

(* One process lifetime with a store whose writes may fail: create,       *)
(* cancel and an edit of the name, the Loop and the Engines interleave.    *)
NextWrite ==
  \/ Advance
  \/ \E spec \in {OneShot1, Every1} : Create(1, spec, NoName, NoneStr, NoneStr)
  \/ Cancel(1)
  \/ EditBegin(1, NoneSpec, UserName, NoneStr, NoneStr)
  \/ \E ok \in BOOLEAN : ApiSet(ok)
  \/ ApiReturn
  \/ Tick
  \/ EngineSteps
  \/ \E e \in Threads, ok \in BOOLEAN : ESet(e, ok)

SpecWrite == InitTask /\ [][NextWrite]_vars

(* One firing on its own: the map holds one active timer with any         *)
(* schedule that is due at any time of the clock, and the Loop has started *)
(* its Engine.                                                             *)
InitCalc ==
  /\ now \in 0..MaxNow
  /\ up = TRUE
  /\ wiring = "task"
  /\ \E interval \in 1..MaxInterval, last \in 1..MaxLast, rec \in BOOLEAN :
       /\ interval <= last /\ last <= now
       /\ timers = [i \in {1} |-> StoredTimer(last, interval, rec, "active")]
       /\ engines = [e \in Threads |->
                       IF e = 1 THEN [Idle EXCEPT !.pc = "start", !.tid = 1, !.occ = last]
                       ELSE Idle]
  /\ redis = Serialize(timers)
  /\ api = ApiIdle
  /\ hist = [i \in Ids |-> IF i = 1 THEN [NoHist EXCEPT !.gen = 1, !.disp = 1] ELSE NoHist]
  /\ keys = Ascending(DOMAIN timers)
  /\ redisKeys = Ascending(DOMAIN redis)

NextCalc ==
  \/ EngineSteps
  \/ \E e \in Threads : ESet(e, TRUE)

SpecCalc == InitCalc /\ [][NextCalc]_vars

(* The Loop over several timers: the map holds a timer of any kind, status *)
(* and next_run under every id; cancels, the Loop and the Engines          *)
(* interleave, the store is available, the clock stands still.            *)
InitLoop ==
  /\ now \in 0..MaxTime
  /\ up = TRUE
  /\ wiring = "task"
  /\ \E m \in [Ids -> {StoredTimer(last, 1, rec, status) :
                           last \in 1..MaxTime, rec \in BOOLEAN,
                           status \in {"active", "cancelled", "completed"}}] :
       timers = [i \in Ids |-> [m[i] EXCEPT !.id = i, !.name = DefaultName(i)]]
  /\ redis = Serialize(timers)
  /\ engines = [e \in Threads |-> Idle]
  /\ api = ApiIdle
  /\ hist = [i \in Ids |-> [NoHist EXCEPT !.gen = 1, !.everRec = timers[i].is_recurring]]
  /\ keys = Ascending(DOMAIN timers)
  /\ redisKeys = Ascending(DOMAIN redis)

NextLoop ==
  \/ \E id \in Ids : Cancel(id)
  \/ ApiSet(TRUE)
  \/ ApiReturn
  \/ Tick
  \/ EngineSteps
  \/ \E e \in Threads : ESet(e, TRUE)

SpecLoop == InitLoop /\ [][NextLoop]_vars

(* A timer whose procedure never returns next to another timer: timer 1   *)
(* is active with such a procedure, timer 2 is active with any schedule    *)
(* and a procedure that returns, raises or is absent.  The Loop's thread   *)
(* and every Engine thread keep running, the clock keeps going and the     *)
(* store answers; the caller may cancel timer 2.                           *)
HangProcedures == {NoneStr, "raise", "exit"}

InitHang ==
  /\ now = 0
  /\ up = TRUE
  /\ wiring = "task"
  /\ \E rec1, rec2 \in BOOLEAN, last \in 1..MaxTime, proc \in HangProcedures :
       timers = [i \in Ids |->
                   IF i = 1
                   THEN [StoredTimer(1, 1, rec1, "active") EXCEPT !.procedure = "hang"]
                   ELSE [StoredTimer(last, 1, rec2, "active") EXCEPT
                           !.id = i, !.name = DefaultName(i), !.procedure = proc]]
  /\ redis = Serialize(timers)
  /\ engines = [e \in Threads |-> Idle]
  /\ api = ApiIdle
  /\ hist = [i \in Ids |-> [NoHist EXCEPT !.gen = 1, !.everRec = timers[i].is_recurring]]
  /\ keys = Ascending(DOMAIN timers)
  /\ redisKeys = Ascending(DOMAIN redis)

(* The steps of the thread in slot e.                                      *)
EngineThread(e) ==
  EStart(e) \/ ECond(e) \/ ECalc(e) \/ EWrite(e) \/ EComplete(e) \/ ESet(e, TRUE)

NextHang ==
  \/ Advance
  \/ Cancel(2)
  \/ ApiSet(TRUE)
  \/ ApiReturn
  \/ Tick
  \/ \E e \in Threads : EngineThread(e)

SpecHang ==
  /\ InitHang /\ [][NextHang]_vars
  /\ WF_vars(Advance) /\ WF_vars(Tick)
  /\ \A e \in Threads : WF_vars(EngineThread(e))

(* A process that starts on a stored map and keeps running: the store      *)
(* holds one active timer of any kind and schedule, with a procedure that  *)
(* is absent, raises an Exception or raises SystemExit (no procedure runs  *)
(* for ever); the clock may pass the schedule before the start.  The process starts, the Loop's thread and every Engine thread   *)
(* keep running, the clock keeps going, the store answers; the caller may  *)
(* cancel the timer.                                                       *)
LiveProcedures == {NoneStr, "raise", "exit"}

InitLive ==
  /\ now = 0
  /\ up = FALSE
  /\ wiring = "task"
  /\ timers = << >>
  /\ \E last \in 1..MaxTime, rec \in BOOLEAN, proc \in LiveProcedures :
       redis = [i \in {1} |-> [StoredTimer(last, 1, rec, "active") EXCEPT
                                 !.procedure = proc]]
  /\ engines = [e \in Threads |-> Idle]
  /\ api = ApiIdle
  /\ hist = [i \in Ids |-> IF i = 1
                            THEN [NoHist EXCEPT !.gen = 1, !.everRec = redis[1].is_recurring]
                            ELSE NoHist]
  /\ keys = Ascending(DOMAIN timers)
  /\ redisKeys = Ascending(DOMAIN redis)

NextLive ==
  \/ Advance
  \/ Start(TRUE)
  \/ Cancel(1)
  \/ ApiSet(TRUE)
  \/ ApiReturn
  \/ Tick
  \/ \E e \in Threads : EngineThread(e)

SpecLive ==
  /\ InitLive /\ [][NextLive]_vars
  /\ WF_vars(Advance) /\ WF_vars(Start(TRUE)) /\ WF_vars(Tick)
  /\ \A e \in Threads : WF_vars(EngineThread(e))

(* The Parser on its own: the caller is about to call create_timer with    *)
(* any time spec of up to MaxLen words, at any time of the clock; the call *)
(* parses the spec and stores the timer or returns the failure.            *)
MaxLen == 3
MaxQty == 2

Units == {"sec", "min", "hour", "day", "week", "month", "year"}
ParseToks == {Through, Every, At, Word} \cup {Qty(n, u) : n \in 0..MaxQty, u \in Units}
ParseSpecs == UNION {[1..n -> ParseToks] : n \in 1..MaxLen}

InitParse ==
  /\ now \in 0..MaxTime
  /\ up = TRUE
  /\ wiring = "task"
  /\ timers = << >>
  /\ redis = << >>
  /\ engines = [e \in Threads |-> Idle]
  /\ \E spec \in ParseSpecs : api = [ApiIdle EXCEPT !.args = Args(spec, NoName, NoneStr, NoneStr)]
  /\ hist = [i \in Ids |-> NoHist]
  /\ keys = Ascending(DOMAIN timers)
  /\ redisKeys = Ascending(DOMAIN redis)

(* The call of create_timer with the arguments the caller holds.           *)
CreatePending ==
  /\ api.args.time_spec # NoneSpec
  /\ FirstCreate(1, api.args.time_spec, api.args.name, api.args.action, api.args.procedure)

NextParse ==
  \/ CreatePending
  \/ ApiSet(TRUE)

SpecParse == InitParse /\ [][NextParse]_vars

(* The listing: timers of both ids are created with schedules of          *)
(* different lengths in any order and cancelled, and the caller lists and  *)
(* describes them; the clock stands still.                                 *)
OneShot2 == <<Through, Qty(2, "sec")>>

NextList ==
  \/ \E id \in Ids, spec \in {OneShot1, OneShot2, Every1} :
       Create(id, spec, NoName, NoneStr, NoneStr)
  \/ \E id \in Ids : Cancel(id)
  \/ \E id \in Ids : Describe(id)
  \/ ListTimers
  \/ ApiSet(TRUE)
  \/ ApiReturn

SpecList == InitApi /\ [][NextList]_vars

(* The Parser with clocks: the caller is about to call create_timer with   *)
(* any time spec of up to MaxWords words, among them clocks with, without *)
(* minutes, in and out of range, and the words for a daily repetition, at  *)
(* instants early and late in a day, on the second of a clock and next to  *)
(* it.                                                                     *)
MaxDay == 1
MaxWords == 4

ClockToks == {Clock(0, None), Clock(1, None), Clock(1, 0), Clock(23, 59),
              Clock(25, 0), Clock(1, 60)}
ClockWords == {Through, Every, At, Daily, DayWord, Word, Qty(1, "min")} \cup ClockToks
ClockSpecs == UNION {[1..n -> ClockWords] : n \in 1..MaxWords}
ClockNows == {d * SecPerDay + h * SecPerHour + m * SecPerMinute + s :
                d \in 0..MaxDay, h \in {1, 23}, m \in {0, 59}, s \in {0, 1}}

InitClock ==
  /\ now \in ClockNows
  /\ up = TRUE
  /\ wiring = "task"
  /\ timers = << >>
  /\ redis = << >>
  /\ engines = [e \in Threads |-> Idle]
  /\ \E spec \in ClockSpecs : api = [ApiIdle EXCEPT !.args = Args(spec, NoName, NoneStr, NoneStr)]
  /\ hist = [i \in Ids |-> NoHist]
  /\ keys = Ascending(DOMAIN timers)
  /\ redisKeys = Ascending(DOMAIN redis)

SpecClock == InitClock /\ [][NextParse]_vars

(* ------------------------------- claims ------------------------------- *)
Running(e) == engines[e].pc \notin {"idle", "start"}
SameTimer(i) == hist'[i].gen = hist[i].gen

(* C1: every due occurrence of a timer is fired exactly once, also when    *)
(* its Engine invocation is still running at later ticks: no two Engine    *)
(* invocations run the procedure and action of the same timer for the same *)
(* stored next_run.                                                        *)
C1_OnceFiredPerOccurrence ==
  \A e1, e2 \in Threads :
    (e1 # e2 /\ Running(e1) /\ Running(e2) /\ engines[e1].tid = engines[e2].tid)
      => engines[e1].occ # engines[e2].occ

(* C2: a timer that never was recurring has its procedure and action       *)
(* executed at most once in total, across ticks, store failures and        *)
(* restarts.                                                               *)
C2_OneShotExecutedAtMostOnce ==
  \A i \in Ids : ~hist[i].everRec => hist[i].execs <= 1

(* C3: for a recurring timer that the start-up catch-up moved, the         *)
(* dispatches of its first occurrence after the restart number exactly     *)
(* one: at most one while that occurrence is the stored next_run, one once *)
(* the stored next_run has moved on.                                       *)
C3_OneFiringAfterCatchUp ==
  \A i \in DOMAIN timers :
    hist[i].first # None =>
      IF timers[i].next_run = hist[i].first
      THEN hist[i].dispFirst <= 1
      ELSE hist[i].dispFirst = 1

(* C4: one application of the start-up catch-up to a stale recurring       *)
(* active timer (stored next_run < now, interval > 0) gives a next_run     *)
(* after now that is the stored one plus a positive multiple of the        *)
(* interval.                                                               *)
C4_CatchUpInFutureOnGrid ==
  \A i \in DOMAIN timers :
    (up /\ i \in DOMAIN redis /\ Stale(redis[i], now)) =>
      LET new == timers[i].next_run
          last == redis[i].next_run
          interval == redis[i].recurrence_interval
      IN /\ new > now
         /\ new - last > 0
         /\ (new - last) % interval = 0

(* C4, witness: a timer that missed at least two intervals was caught up.  *)
C4_Witness ==
  /\ up /\ 1 \in DOMAIN timers /\ Stale(redis[1], now)
  /\ now - redis[1].next_run >= 2 * redis[1].recurrence_interval
  /\ timers[1].next_run > now

(* C5: the next_run an Engine is about to write back for a recurring timer *)
(* is strictly after the time at which it computed it.                     *)
C5_RescheduleAfterNow ==
  \A e \in Threads : engines[e].pc = "write" => engines[e].next_run > engines[e].tnow

(* C6: cancelled is terminal: a timer whose status is cancelled keeps it   *)
(* in every step.                                                          *)
C6_CancelledIsTerminal ==
  [][\A i \in DOMAIN timers :
       (timers[i].status = "cancelled" /\ SameTimer(i) /\ i \in DOMAIN timers')
         => timers'[i].status = "cancelled"]_vars

(* C7: completed is terminal: a timer whose status is completed keeps it   *)
(* in every step.                                                          *)
C7_CompletedIsTerminal ==
  [][\A i \in DOMAIN timers :
       (timers[i].status = "completed" /\ SameTimer(i) /\ i \in DOMAIN timers')
         => timers'[i].status = "completed"]_vars

(* C8: no step sets to completed the status of a timer whose is_recurring  *)
(* is true.                                                                *)
C8_RecurringNeverCompleted ==
  [][\A i \in DOMAIN timers :
       (i \in DOMAIN timers' /\ SameTimer(i)
        /\ timers[i].status # "completed" /\ timers'[i].status = "completed")
         => ~timers[i].is_recurring]_vars

(* C9: once cancel was applied to an active timer whose next_run <= now    *)
(* and for which the Loop has not yet started a thread at that next_run,   *)
(* the Loop does not dispatch it and its status reads cancelled.           *)
C9_CancelledDueStaysCancelled ==
  \A i \in DOMAIN timers :
    hist[i].cancDue => (timers[i].status = "cancelled" /\ ~LoopDue(timers[i], now))

(* C10: a one-shot timer created with a relative spec and an action, the   *)
(* Task Sink wired, not edited or cancelled: when one tick has dispatched  *)
(* it and no Engine invocation of it is running any more, one createTask   *)
(* call was made for it and its status is completed.                       *)
C10_Pre(i) ==
  /\ HasTok(timers[i].time_spec, "through") /\ ~timers[i].is_recurring
  /\ TruthyStr(timers[i].action) /\ wiring = "task"
  /\ ~hist[i].touched
  /\ hist[i].disp = 1 /\ ~InFlight(i)

C10_OneTaskThenCompleted ==
  \A i \in DOMAIN timers :
    C10_Pre(i) => (hist[i].tasks = 1 /\ timers[i].status = "completed")

(* C10, witness: such a timer after its one firing.                        *)
C10_Witness ==
  \E i \in DOMAIN timers :
    C10_Pre(i) /\ hist[i].tasks = 1 /\ timers[i].status = "completed" /\ now >= timers[i].next_run

(* Timer i was created and neither edited nor cancelled nor restarted, and *)
(* its Engine invocations, at least one, have all ended.                   *)
FiredAndAtRest(i) == ~hist[i].touched /\ hist[i].execs >= 1 /\ ~InFlight(i)

(* The write-back of a firing: a later next_run than the first one for a   *)
(* recurring timer, completed for a one-shot.                              *)
WrittenBack(t) ==
  IF t.is_recurring
  THEN t.next_run > t.created_at + t.recurrence_interval
  ELSE t.status = "completed"

(* C11: a firing whose procedure fails still delegates the action (the     *)
(* same calls as for a procedure that does not fail) and still reschedules *)
(* a recurring timer or completes a one-shot.                              *)
C11_ProcedureFailureDoesNotAbort ==
  \A i \in DOMAIN timers :
    (FiredAndAtRest(i) /\ timers[i].procedure \in {"raise", "exit"}) =>
      /\ hist[i].tasks >= TaskCalls(timers[i], wiring)
      /\ hist[i].inbox >= InboxCalls(timers[i], wiring)
      /\ WrittenBack(timers[i])

(* C12: a recurring timer whose procedure raises and whose collaborator    *)
(* throws at every firing is still active and has a new next_run after its *)
(* firings.                                                                *)
C12_FailingRecurringKeepsGoing ==
  \A i \in DOMAIN timers :
    (/\ FiredAndAtRest(i) /\ timers[i].is_recurring
     /\ timers[i].procedure \in {"raise", "exit"}
     /\ TruthyStr(timers[i].action) /\ SinkThrows(wiring)) =>
      /\ timers[i].status = "active"
      /\ timers[i].next_run > timers[i].created_at + timers[i].recurrence_interval

(* C19: one firing of a timer with an action makes one createTask call and *)
(* no Inbox delivery when the Task Sink is wired, one Inbox delivery and   *)
(* no createTask call when it is not; without an action it makes neither.  *)
C19_OneDelegationPerFiring ==
  \A i \in DOMAIN timers :
    (/\ ~hist[i].touched /\ hist[i].execs = 1 /\ ~InFlight(i)
     /\ timers[i].procedure # "exit") =>
      IF ~TruthyStr(timers[i].action)
      THEN hist[i].tasks = 0 /\ hist[i].inbox = 0
      ELSE IF HasTaskTool(wiring)
      THEN hist[i].tasks = 1 /\ hist[i].inbox = 0
      ELSE hist[i].tasks = 0 /\ hist[i].inbox = 1

(* C20: an Engine invocation that finds its timer missing or not active    *)
(* when it starts ends without changing any timer, the store, or the       *)
(* counts of procedure runs, createTask calls and Inbox deliveries.        *)
C20_AbortHasNoEffect ==
  [][\A e \in Threads :
       (/\ engines[e].pc = "start" /\ engines'[e].pc # "start"
        /\ (\/ engines[e].tid \notin DOMAIN timers
            \/ timers[engines[e].tid].status # "active")) =>
         (/\ engines'[e] = Idle
          /\ timers' = timers /\ redis' = redis /\ hist' = hist)]_vars

(* C20, witness: a timer cancelled between its dispatch and the start of   *)
(* the Engine, whose invocation has ended.                                 *)
C20_Witness ==
  \E i \in DOMAIN timers :
    /\ timers[i].status = "cancelled" /\ hist[i].disp >= 1 /\ ~InFlight(i)
    /\ hist[i].execs = 0 /\ hist[i].tasks = 0 /\ hist[i].inbox = 0

(* A call that returns at once: the step from the idle API to a result.    *)
ReturnsAtOnce(op) == api.pc = "idle" /\ api'.pc = "ret" /\ api'.op = op
MapsUnchanged == timers' = timers /\ redis' = redis

(* C13: create with a time spec that the Parser cannot parse returns a     *)
(* failure and leaves the in-memory map and the stored map as they were.   *)
C13_UnparseableCreateChangesNothing ==
  [][\A id \in Ids, spec \in Unparseable :
       Create(id, spec, NoName, NoneStr, NoneStr) =>
         (api'.pc = "ret" /\ api'.ret = "parse_error" /\ MapsUnchanged)]_vars

(* C13, witness: such a create has returned its failure while the map      *)
(* holds a timer.                                                          *)
C13_Witness ==
  api.pc = "ret" /\ api.op = "create" /\ api.ret = "parse_error" /\ timers # << >>

(* C14: create with a procedure that is not valid Python returns the       *)
(* syntax error, whatever the time spec, and neither runs the procedure    *)
(* nor parses the spec nor changes the in-memory map or the stored map.    *)
C14_InvalidProcedureCreateChangesNothing ==
  [][\A id \in Ids, spec \in ApiSpecs :
       Create(id, spec, NoName, NoneStr, "bad") =>
         (api'.pc = "ret" /\ api'.ret = "syntax_error" /\ MapsUnchanged /\ hist' = hist)]_vars

(* C14, witness: such a create has returned its failure while the map      *)
(* holds a timer.                                                          *)
C14_Witness ==
  api.pc = "ret" /\ api.op = "create" /\ api.ret = "syntax_error" /\ timers # << >>

(* C15: an edit that fails the validation of its procedure or of its time  *)
(* spec leaves the in-memory map and the stored map as they were.          *)
C15_FailedEditAppliesNothing ==
  [][(ReturnsAtOnce("edit") /\ api'.ret \in {"procedure_error", "parse_error"})
       => MapsUnchanged]_vars

(* C16: no Timer API call ends with an exception that reaches the caller.  *)
C16_ApiNeverRaises == api.pc = "ret" => api.ret # "raised"

(* C17: cancel, edit and describe of an id that is not in the map return   *)
(* not-found and leave the in-memory map and the stored map as they were.  *)
C17_UnknownIdChangesNothing ==
  [][\A op \in {"cancel", "edit", "describe"} :
       (ReturnsAtOnce(op) /\ api'.tid \notin DOMAIN timers) =>
         (api'.ret = "not_found" /\ MapsUnchanged)]_vars

(* C17, witness: not-found was returned for an id that the map, which      *)
(* holds another timer, does not hold.                                     *)
C17_Witness ==
  /\ api.pc = "ret" /\ api.ret = "not_found" /\ api.op \in {"cancel", "edit", "describe"}
  /\ timers # << >> /\ api.tid \notin DOMAIN timers

(* The value a field has after an edit: the supplied one, else the old.    *)
Supplied(new, old, none) == IF new # none THEN new ELSE old

(* C18: when an edit called alone has written its fields, the record holds *)
(* the supplied name, action and procedure, the supplied spec with the     *)
(* Parser's next_run, is_recurring and recurrence_interval for it, and its *)
(* old value in every other field (id, created_at and status among them);  *)
(* the other records are as before and the map to be stored is that map.   *)
C18_EditChangesOnlySupplied ==
  (api.op = "edit" /\ api.pc = "set") =>
    LET id == api.tid
        old == api.pre[id]
        new == timers[id]
        a == api.args
        p == IF a.time_spec # NoneSpec THEN api.p
             ELSE Parsed(old.next_run, old.is_recurring, old.recurrence_interval)
    IN /\ DOMAIN timers = DOMAIN api.pre
       /\ \A j \in DOMAIN timers \ {id} : timers[j] = api.pre[j]
       /\ a.time_spec # NoneSpec => \E t \in 0..now : p = ParseTimeSpec(a.time_spec, t)
       /\ new = [id |-> old.id,
                 name |-> Supplied(a.name, old.name, NoName),
                 time_spec |-> Supplied(a.time_spec, old.time_spec, NoneSpec),
                 next_run |-> p.next_run,
                 is_recurring |-> p.is_recurring,
                 recurrence_interval |-> p.recurrence_interval,
                 action |-> Supplied(a.action, old.action, NoneStr),
                 procedure |-> Supplied(a.procedure, old.procedure, NoneStr),
                 created_at |-> old.created_at,
                 status |-> old.status]
       /\ api.snap = timers

(* C18, witness: an edit of one of two timers that supplied a name and a   *)
(* spec of the other kind has written its fields.                          *)
C18_Witness ==
  /\ api.op = "edit" /\ api.pc = "set" /\ Cardinality(DOMAIN timers) = 2
  /\ api.args.name # NoName /\ api.args.time_spec # NoneSpec
  /\ timers[api.tid].is_recurring # api.pre[api.tid].is_recurring
  /\ timers[api.tid].status = "cancelled"

(* C21: no step removes a timer id from the stored map, and no step of a   *)
(* running process removes one from the in-memory map.                     *)
C21_RecordsNeverRemoved ==
  [][/\ DOMAIN redis \subseteq DOMAIN redis'
     /\ (up /\ up') => DOMAIN timers \subseteq DOMAIN timers']_vars

(* The threads that the step starts, and the timers that are due in the    *)
(* in-memory map.                                                          *)
StartedNow == {e \in Threads : engines[e].pc = "idle" /\ engines'[e].pc = "start"}
DueInMemory == {i \in DOMAIN timers : timers[i].status = "active" /\ timers[i].next_run <= now}

(* C22: a save whose store write fails leaves the in-memory map with the   *)
(* mutation applied (the created record, the cancelled status, the edited  *)
(* name, the Engine's write-back), the API call returns its normal result  *)
(* and the Engine thread ends; and every pass of the Loop starts a thread  *)
(* for exactly the timers due in the in-memory map, whatever the store     *)
(* holds.                                                                  *)
C22_FailedWriteKeepsMemory ==
  [][/\ (api.pc = "set" /\ api'.pc # "set" /\ redis' # api.snap) =>
          /\ timers' = timers
          /\ api' = Returned(api.op, api.tid, "ok")
          /\ api.tid \in DOMAIN timers
          /\ api.op = "cancel" => timers[api.tid].status # "active"
          /\ api.op = "edit" => timers[api.tid].name = UserName
     /\ \A e \in Threads :
          (engines[e].pc = "set" /\ engines'[e].pc # "set" /\ redis' # engines[e].snap) =>
            (timers' = timers /\ engines'[e] = Idle /\ api' = api)
     /\ StartedNow # {} =>
          /\ {engines'[e].tid : e \in StartedNow} = DueInMemory
          /\ Cardinality(StartedNow) = Cardinality(DueInMemory)]_vars

(* C22, witness: a timer whose create was never stored was dispatched,     *)
(* fired and written back in memory by an Engine whose write failed too.   *)
C22_Witness ==
  /\ 1 \in DOMAIN timers /\ redis = << >> /\ api.pc = "idle"
  /\ hist[1].disp >= 1 /\ hist[1].execs >= 1 /\ ~InFlight(1)
  /\ timers[1].is_recurring /\ timers[1].next_run > timers[1].created_at + 1

(* C23: the next_run an Engine is about to write back for a recurring      *)
(* timer that was due (next_run <= now, interval > 0) is the one the       *)
(* start-up catch-up computes from the same next_run, interval and now:    *)
(* next_run + (floor((now - next_run) / interval) + 1) * interval.         *)
C23_EngineComputesCatchUp ==
  \A e \in Threads :
    engines[e].pc = "write" =>
      LET t == timers[engines[e].tid]
      IN (t.recurrence_interval > 0 /\ t.next_run <= engines[e].tnow) =>
           engines[e].next_run = CatchUp(t.next_run, t.recurrence_interval, engines[e].tnow)

(* C24: a pass of the Loop starts one thread for each timer of the map     *)
(* whose status is active and whose next_run <= now, starts none for any   *)
(* other timer, and changes neither the in-memory map nor the stored map.  *)
C24_TickDispatchesExactlyDue ==
  [][StartedNow # {} =>
       /\ \A i \in DOMAIN timers :
            Cardinality({e \in StartedNow : engines'[e].tid = i}) =
              (IF timers[i].status = "active" /\ timers[i].next_run <= now THEN 1 ELSE 0)
       /\ \A e \in StartedNow : engines'[e].tid \in DOMAIN timers
       /\ timers' = timers /\ redis' = redis]_vars

(* C24, witness: of two timers whose next_run has come, one cancelled and  *)
(* one active, the Loop has dispatched the active one only.                *)
C24_Witness ==
  /\ DOMAIN timers = {1, 2}
  /\ timers[2].status = "cancelled" /\ timers[2].next_run <= now /\ hist[2].disp = 0
  /\ ~InFlight(2)
  /\ \E e \in Threads : engines[e].pc = "start" /\ engines[e].tid = 1
  /\ timers[1].status = "active" /\ timers[1].next_run <= now

(* C25: once the Engine of timer 1 is stuck in its procedure, every other  *)
(* timer that is active with next_run <= now is eventually dispatched and  *)
(* rescheduled or completed (or cancelled by the caller): it does not stay *)
(* due.                                                                    *)
C25_OthersFireBesideHungEngine ==
  \A i \in Ids \ {1} :
    (hist[1].execs >= 1 /\ LoopDue(timers[i], now)) ~> ~LoopDue(timers[i], now)

(* C26: in every state every timer of the map has a recurrence_interval    *)
(* that is a positive number exactly when is_recurring is true, a status   *)
(* that is active, cancelled or completed, and a number as next_run.       *)
C26_RecordWellFormed ==
  \A i \in DOMAIN timers :
    /\ timers[i].is_recurring <=>
         (timers[i].recurrence_interval # None /\ timers[i].recurrence_interval > 0)
    /\ timers[i].status \in {"active", "cancelled", "completed"}
    /\ timers[i].next_run \in Nat

(* A create that stores a record: the step from the idle API to the save   *)
(* of create_timer.                                                        *)
CreateStores == api.pc = "idle" /\ api'.pc = "set" /\ api'.op = "create"

(* C27: a successful create never assigns an id that is a key of the map:  *)
(* it overwrites no record and the map grows by exactly one.               *)
C27_CreateAssignsFreshId ==
  [][CreateStores =>
       /\ api'.tid \notin DOMAIN timers
       /\ Cardinality(DOMAIN timers') = Cardinality(DOMAIN timers) + 1]_vars

(* The record of timer id is as create_timer builds it from a spec of the  *)
(* callers' set at time tnow, without a name.                              *)
AsCreated(t, id, tnow) ==
  \E spec \in ApiSpecs :
    LET p == ParseTimeSpec(spec, tnow)
    IN /\ p.res = "ok"
       /\ t.id = id /\ t.status = "active" /\ t.time_spec = spec
       /\ t.next_run = p.next_run /\ t.is_recurring = p.is_recurring
       /\ t.recurrence_interval = p.recurrence_interval
       /\ t.name = DefaultName(id) /\ t.created_at = tnow

(* C28: a successful create adds exactly one record to the in-memory map,  *)
(* active, with the Parser's next_run, is_recurring and interval for its   *)
(* spec, the spec itself and the name made from the id, and changes no     *)
(* other record; when it returns with the store available the stored map   *)
(* holds that record too.                                                  *)
C28_CreateAddsOneRecord ==
  [][/\ CreateStores =>
          /\ api'.tid \notin DOMAIN timers
          /\ DOMAIN timers' = DOMAIN timers \cup {api'.tid}
          /\ \A j \in DOMAIN timers : timers'[j] = timers[j]
          /\ AsCreated(timers'[api'.tid], api'.tid, now)
     /\ (api.pc = "set" /\ api.op = "create" /\ api'.pc = "ret") =>
          /\ api.tid \in DOMAIN timers' /\ api.tid \in DOMAIN redis'
          /\ redis'[api.tid] = timers'[api.tid]
          /\ AsCreated(timers'[api.tid], api.tid, now)]_vars

(* The seconds of the quantity-unit tokens of a sequence of words, with    *)
(* the units of the specification.                                         *)
SecondsOfUnit(u) ==
  CASE u = "sec" -> 1 [] u = "min" -> 60 [] u = "hour" -> 3600 [] u = "day" -> 86400
    [] u = "week" -> 604800 [] u = "month" -> 2592000 [] u = "year" -> 31536000

RECURSIVE TokenSeconds(_)
TokenSeconds(ws) ==
  IF ws = << >> THEN 0
  ELSE (IF ws[1].t = "qty" THEN ws[1].n * SecondsOfUnit(ws[1].u) ELSE 0)
       + TokenSeconds(SubSeq(ws, 2, Len(ws)))

NoTokens(ws) == \A k \in 1..Len(ws) : ws[k].t # "qty"

(* The words after the first keyword kw; all the words when nothing        *)
(* follows it.                                                             *)
AfterKeyword(ws, kw) ==
  LET k == CHOOSE j \in 1..Len(ws) : ws[j].t = kw /\ \A h \in 1..(j-1) : ws[h].t # kw
  IN IF k < Len(ws) THEN SubSeq(ws, k + 1, Len(ws)) ELSE ws

(* What the pending create_timer call does with the Parser's answer: it    *)
(* returns the failure, or it stores timer 1 with the three results.       *)
Calls == api.pc = "idle" /\ api' # api
GivesFailure == api'.pc = "ret" /\ api'.ret = "parse_error" /\ timers' = timers
Gives(nr, rec, int) ==
  /\ api'.pc = "set" /\ 1 \in DOMAIN timers'
  /\ timers'[1].next_run = nr /\ timers'[1].is_recurring = rec
  /\ timers'[1].recurrence_interval = int

(* C29 as stated: for a spec with the keyword "through" the Parser gives   *)
(* now + the seconds of all quantity-unit tokens of the spec, not          *)
(* recurring, no interval; Failure when the spec has no token or the sum   *)
(* is zero.                                                                *)
C29_RelativeSumsAllTokens ==
  [][(Calls /\ HasTok(api.args.time_spec, "through")) =>
       LET ws == api.args.time_spec
       IN IF NoTokens(ws) \/ TokenSeconds(ws) = 0
          THEN GivesFailure
          ELSE Gives(now + TokenSeconds(ws), FALSE, None)]_vars

(* C29, amended: for a spec with the keyword "through" the Parser gives    *)
(* now + the seconds of the quantity-unit tokens that follow the first     *)
(* "through" (of all tokens when nothing follows it), not recurring, no    *)
(* interval; Failure when there is no such token or the sum is zero.       *)
C29_RelativeSumsTokensAfterKeyword ==
  [][(Calls /\ HasTok(api.args.time_spec, "through")) =>
       LET ws == AfterKeyword(api.args.time_spec, "through")
       IN IF NoTokens(ws) \/ TokenSeconds(ws) = 0
          THEN GivesFailure
          ELSE Gives(now + TokenSeconds(ws), FALSE, None)]_vars

(* C29, witness: "through 1 day 2 hours" was parsed to now + 93600.        *)
C29_Witness ==
  /\ 1 \in DOMAIN timers
  /\ timers[1].time_spec = <<Through, Qty(1, "day"), Qty(2, "hour")>>
  /\ timers[1].next_run = timers[1].created_at + 93600 /\ ~timers[1].is_recurring

(* A spec that goes to the recurring grammar: it has the keyword "every"   *)
(* and not the keyword "through", which comes first.                       *)
RecurringSpec(ws) == HasTok(ws, "every") /\ ~HasTok(ws, "through")

(* C30 as stated: for a spec with the keyword "every" and one or more      *)
(* quantity-unit tokens the Parser gives a recurring schedule whose        *)
(* interval is the seconds of all tokens of the spec and is positive, and  *)
(* next_run = now + interval; Failure when the spec has no token.          *)
C30_RecurringSumsAllTokens ==
  [][(Calls /\ RecurringSpec(api.args.time_spec)) =>
       LET ws == api.args.time_spec
       IN IF NoTokens(ws)
          THEN GivesFailure
          ELSE /\ TokenSeconds(ws) > 0
               /\ Gives(now + TokenSeconds(ws), TRUE, TokenSeconds(ws))]_vars

(* C30, amended: for a spec with the keyword "every" (and without          *)
(* "through") the Parser gives a recurring schedule whose interval is the  *)
(* seconds of the quantity-unit tokens that follow the first "every" (of   *)
(* all tokens when nothing follows it), and next_run = now + interval;     *)
(* Failure when there is no such token or the sum is zero.                 *)
C30_RecurringSumsTokensAfterKeyword ==
  [][(Calls /\ RecurringSpec(api.args.time_spec)) =>
       LET ws == AfterKeyword(api.args.time_spec, "every")
       IN IF NoTokens(ws) \/ TokenSeconds(ws) = 0
          THEN GivesFailure
          ELSE Gives(now + TokenSeconds(ws), TRUE, TokenSeconds(ws))]_vars

(* C30, witness: "every 1 hour 2 minutes" was parsed to the interval 3720  *)
(* and the first run at now + 3720.                                        *)
C30_Witness ==
  /\ 1 \in DOMAIN timers
  /\ timers[1].time_spec = <<Every, Qty(1, "hour"), Qty(2, "min")>>
  /\ timers[1].is_recurring /\ timers[1].recurrence_interval = 3720
  /\ timers[1].next_run = timers[1].created_at + 3720

(* The clock of a spec: the word after the first "at" that a clock follows. *)
HasClock(ws) == \E j \in 1..(Len(ws) - 1) : ws[j].t = "at" /\ ws[j+1].t = "clock"
ClockOf(ws) ==
  LET k == CHOOSE j \in 1..(Len(ws) - 1) :
             /\ ws[j].t = "at" /\ ws[j+1].t = "clock"
             /\ \A h \in 1..(j-1) : ~(ws[h].t = "at" /\ ws[h+1].t = "clock")
  IN ws[k+1]
HourOf(ws) == ClockOf(ws).n
MinuteOf(ws) == IF ClockOf(ws).m = None THEN 0 ELSE ClockOf(ws).m
ValidClock(ws) == HasClock(ws) /\ HourOf(ws) \in 0..23 /\ MinuteOf(ws) \in 0..59

(* A spec that goes to the absolute grammar: "at H[:MM]" with an hour and  *)
(* a minute in range, without the keywords "through" and "every".          *)
AbsoluteSpec(ws) == ValidClock(ws) /\ ~HasTok(ws, "through") /\ ~HasTok(ws, "every")

(* Today at H:MM:00, in seconds, at the instant tnow.                      *)
TodayAt(ws, tnow) == tnow - (tnow % 86400) + HourOf(ws) * 3600 + MinuteOf(ws) * 60

(* C31: for an absolute spec "at H[:MM]" with hour and minute in range the *)
(* Parser gives today at H:MM:00 when that instant is strictly after now   *)
(* and that instant plus one day otherwise, so now < next_run <= now +     *)
(* 86400; a missing minute part is minute 0.                               *)
C31_AbsoluteTodayOrTomorrow ==
  [][(Calls /\ AbsoluteSpec(api.args.time_spec)) =>
       LET at == TodayAt(api.args.time_spec, now)
           nr == IF at > now THEN at ELSE at + 86400
       IN /\ api'.pc = "set" /\ 1 \in DOMAIN timers'
          /\ timers'[1].next_run = nr
          /\ now < nr /\ nr <= now + 86400]_vars

(* C31, witness: "at 1", asked at 01:00:00 sharp, was parsed to the same   *)
(* clock of the next day.                                                  *)
C31_Witness ==
  /\ 1 \in DOMAIN timers
  /\ timers[1].time_spec = <<At, Clock(1, None)>>
  /\ timers[1].created_at % 86400 = 3600
  /\ timers[1].next_run = timers[1].created_at + 86400

(* The words of a daily repetition: "daily", or "every" followed by "day". *)
DailyKeyword(ws) ==
  \/ \E j \in 1..Len(ws) : ws[j].t = "daily"
  \/ \E j \in 1..(Len(ws) - 1) : ws[j].t = "every" /\ ws[j+1].t = "dayword"

(* C32: for a spec with "at H[:MM]" the top-level Parser gives a recurring *)
(* schedule with the interval 86400 when the spec also has a word of daily *)
(* repetition ("daily" or "every day"), and a one-shot schedule without    *)
(* interval when it has none.                                              *)
C32_DailyIffKeyword ==
  [][(Calls /\ ValidClock(api.args.time_spec)) =>
       /\ api'.pc = "set" /\ 1 \in DOMAIN timers'
       /\ IF DailyKeyword(api.args.time_spec)
          THEN timers'[1].is_recurring /\ timers'[1].recurrence_interval = 86400
          ELSE ~timers'[1].is_recurring /\ timers'[1].recurrence_interval = None]_vars

(* What each grammar gives for the words ws on its own: the seconds of the  *)
(* relative and of the recurring grammar (0: it fails), and the create     *)
(* that follows from each grammar's answer.                                *)
PartOf(ws, kw) == IF HasTok(ws, kw) THEN AfterKeyword(ws, kw) ELSE ws
RelativeSeconds(ws) == TokenSeconds(PartOf(ws, "through"))
RecurringSeconds(ws) == TokenSeconds(PartOf(ws, "every"))
GivesRelative(ws) == Gives(now + RelativeSeconds(ws), FALSE, None)
GivesRecurring(ws) == Gives(now + RecurringSeconds(ws), TRUE, RecurringSeconds(ws))
GivesAbsolute(ws) ==
  LET at == TodayAt(ws, now)
  IN Gives(IF at > now THEN at ELSE at + 86400, DailyKeyword(ws),
           IF DailyKeyword(ws) THEN 86400 ELSE None)

(* C33: the grammar is chosen by the first of the keywords "through",      *)
(* "every", "at" the spec has; the Parser gives that grammar's answer and  *)
(* Failure when that grammar fails, without trying another.  A spec with   *)
(* none of the keywords gets the first answer of the relative, recurring   *)
(* and absolute grammar that is not a failure, and Failure when all fail.  *)
C33_KeywordPriority ==
  [][Calls =>
       LET ws == api.args.time_spec
       IN IF HasTok(ws, "through")
          THEN IF RelativeSeconds(ws) > 0 THEN GivesRelative(ws) ELSE GivesFailure
          ELSE IF HasTok(ws, "every")
          THEN IF RecurringSeconds(ws) > 0 THEN GivesRecurring(ws) ELSE GivesFailure
          ELSE IF HasTok(ws, "at")
          THEN IF ValidClock(ws) THEN GivesAbsolute(ws) ELSE GivesFailure
          ELSE IF RelativeSeconds(ws) > 0 THEN GivesRelative(ws)
          ELSE IF RecurringSeconds(ws) > 0 THEN GivesRecurring(ws)
          ELSE IF ValidClock(ws) THEN GivesAbsolute(ws)
          ELSE GivesFailure]_vars

(* A call of list_timers or get_timer_details: the step from the idle API  *)
(* to its return.                                                          *)
Lists == api.pc = "idle" /\ api'.pc = "ret" /\ api'.op = "list"
Describes == api.pc = "idle" /\ api'.pc = "ret" /\ api'.op = "describe"

(* C34: the rows list_timers returns are in ascending order of next_run,   *)
(* and list_timers and get_timer_details change no timer field, no entry   *)
(* of the map and no entry of the store.                                   *)
C34_ListSortedAndReadOnly ==
  [][/\ Lists =>
          \A i, j \in 1..Len(api'.rows) :
            i < j => api'.rows[i].next_run <= api'.rows[j].next_run
     /\ (Lists \/ Describes) =>
          /\ timers' = timers /\ keys' = keys
          /\ redis' = redis /\ redisKeys' = redisKeys]_vars

(* No API call and no Engine is under way: the caller is idle or has its    *)
(* result and every Engine slot is free.                                   *)
AllFinished == api.pc \in {"idle", "ret"} /\ \A e \in Threads : engines[e].pc = "idle"

(* C35: with the store available, once every API call and every Engine     *)
(* write-back has finished, the stored map equals the map in memory.       *)
C35_StoredEqualsMemoryAtRest ==
  (up /\ AllFinished) => redis = timers

(* next_run went from old to new by a positive multiple of the interval.   *)
AddsIntervals(old, new, interval) ==
  /\ interval # None /\ interval > 0
  /\ new > old /\ (new - old) % interval = 0

(* The Engine in slot e writes the next_run of timer i back to the map.    *)
Rescheduled(e, i) ==
  engines[e].pc = "write" /\ engines[e].tid = i /\ engines'[e].pc = "set"

(* C36: without edits, every change that the start-up catch-up or an       *)
(* Engine's reschedule makes to the next_run of a recurring timer adds a   *)
(* positive multiple of its interval: next_run grows and stays on the grid *)
(* of its first value.                                                     *)
C36_NextRunMovesByIntervals ==
  [][\A i \in Ids :
       /\ (i \in DOMAIN timers /\ (\E e \in Threads : Rescheduled(e, i))
           /\ timers'[i].next_run # timers[i].next_run) =>
            AddsIntervals(timers[i].next_run, timers'[i].next_run,
                          timers[i].recurrence_interval)
       /\ (~up /\ up' /\ i \in DOMAIN timers' /\ i \in DOMAIN redis
           /\ timers'[i].next_run # redis[i].next_run) =>
            AddsIntervals(redis[i].next_run, timers'[i].next_run,
                          redis[i].recurrence_interval)]_vars

(* C37: when an Engine sets the status of a timer to completed, the        *)
(* next_run the timer holds at that moment is <= now, also when an edit    *)
(* replaced the schedule while the firing was in flight.                   *)
C37_CompletedOnlyWhenDue ==
  [][\A i \in DOMAIN timers :
       (i \in DOMAIN timers' /\ timers[i].status # "completed"
        /\ timers'[i].status = "completed") =>
         timers[i].next_run <= now]_vars

(* C38: the start-up catch-up gives a stale recurring active timer (stored *)
(* next_run < now) the earliest point of its grid after now: the new       *)
(* next_run is the stored one plus a multiple of the interval and          *)
(* new - interval <= now < new; a timer that is not active, not recurring  *)
(* or whose next_run >= now is loaded as it is stored.                     *)
C38_CatchUpEarliestGridPoint ==
  [][(~up /\ up') =>
       \A i \in DOMAIN redis :
         /\ i \in DOMAIN timers'
         /\ LET t == redis[i]
                new == timers'[i].next_run
            IN IF t.status = "active" /\ t.is_recurring /\ t.next_run < now
               THEN /\ (new - t.next_run) % t.recurrence_interval = 0
                    /\ new - t.recurrence_interval <= now /\ now < new
                    /\ timers'[i] = [t EXCEPT !.next_run = new]
               ELSE timers'[i] = t]_vars

(* C38, witness: a stale timer with an interval of more than one second    *)
(* was caught up to the grid point exactly one interval after now.         *)
C38_Witness ==
  /\ up /\ 1 \in DOMAIN timers /\ 1 \in DOMAIN redis
  /\ redis[1].status = "active" /\ redis[1].is_recurring /\ redis[1].next_run < now
  /\ timers[1].next_run = now + redis[1].recurrence_interval
  /\ redis[1].recurrence_interval > 1

(* Timer i is in the map of the running process.                           *)
Loaded(i) == up /\ i \in DOMAIN timers

(* C39: with the Loop ticking and every Engine invocation coming to its    *)
(* end, every active timer with next_run <= now is eventually dispatched   *)
(* (or cancelled first), and every one-shot timer is eventually completed  *)
(* unless it is cancelled, also when it was overdue at the process start.  *)
C39_DueDispatchedOneShotCompleted ==
  \A i \in Ids :
    /\ (Loaded(i) /\ LoopDue(timers[i], now))
          ~> (Loaded(i) /\ (InFlight(i) \/ timers[i].status = "cancelled"))
    /\ (Loaded(i) /\ ~timers[i].is_recurring /\ timers[i].status = "active")
          ~> (Loaded(i) /\ timers[i].status \in {"completed", "cancelled"})

=============================================================================
